---- MODULE Spec2Model ----
(***************************************************************************)
(* State-machine model of GameEngine (src/app/game-engine.ts): the player's *)
(* ammunition and timed reload, the player's shots against the live enemy  *)
(* set, the enemies' shots against the player in each animation frame, the *)
(* look (mouse movement and recoil), the player's movement (keys, jump,    *)
(* updatePlayer) and teardown.  The enemies' geometry is not state of the  *)
(* model: what a ray cast or a distance computation returns is an input of *)
(* the handler that performs it, drawn from a small set.  The player's     *)
(* position and velocity are state, in thousandths of a unit, the camera   *)
(* looking in the vertical plane through -z.  Each specification follows   *)
(* one part of the engine from a state a match reaches.                    *)
(***************************************************************************)
EXTENDS Integers, Sequences, FiniteSets, TLC

VARIABLES
    playerHealth,       \* GameEngine.playerHealth
    playerAmmo,         \* GameEngine.playerAmmo (magazine)
    playerReserveAmmo,  \* GameEngine.playerReserveAmmo
    isReloading,        \* GameEngine.isReloading
    isLocked,           \* GameEngine.isLocked (pointer lock held)
    enemies,            \* GameEngine.enemies: sequence of enemy records
    timers,             \* pending setTimeout callbacks of reload(), oldest first
    disposed,           \* dispose() has run (canvas detached); listeners stay
    now,                \* wall clock (Date.now()), ms
    emitted,            \* callbacks invoked by the last handler, in order
    removed,            \* enemy records taken out of enemies by the last handler
    op,                 \* the last handler that ran
    kills,              \* onKill invocations so far (the HUD's kill count)
    shotsFired,         \* number of shoot() calls that fired (bounds the run)
    cursor,             \* position of updateEnemies' forEach: the index of the
                        \* enemy checked next, 0 outside the loop
    probe,              \* what the last shoot check found and read
    pitch,              \* camera.rotation.x in microradians, the camera
                        \* looking in the vertical plane through -z
    position,           \* camera.position, thousandths of a unit
    velocity,           \* thousandths of a unit per second
    canJump,
    moveForward, moveBackward, moveLeft, moveRight,
    frames,             \* animate() callbacks so far (bounds the run)
    step                \* the last updatePlayer: prevPosition, the position
                        \* after lines 471-473, whether a wall was hit

\* The loop position and the record of the last shoot check, used where a
\* frame is followed enemy by enemy.
frameVars == <<cursor, probe>>

\* The camera's orientation, used where the look is followed.
lookVars == <<pitch>>

\* The player's movement state.
moveKeys == <<moveForward, moveBackward, moveLeft, moveRight>>
moveVars == <<position, velocity, canJump, moveKeys, frames, step>>

vars == <<playerHealth, playerAmmo, playerReserveAmmo, isReloading, isLocked,
          enemies, timers, disposed, now, emitted, removed, op, kills,
          shotsFired, cursor, probe, pitch, position, velocity, canJump,
          moveForward, moveBackward, moveLeft, moveRight, frames, step>>

----------------------------------------------------------------------------
(* Program constants *)

MagazineSize == 30
StartReserve == 90
TargetCount == 5
EnemyHealth == 100
PlayerStartHealth == 100
ShotDamage == 34
EnemyShotDamage == 10
CooldownMs == 2000
DetectRadius == 50
MissTenths == 3

(* Bounds of the model *)

MaxShots == 5
MaxTicks == 4
MaxFrames == 2

\* Time between two modelled frames, and Date.now() at construction: any
\* timestamp more than CooldownMs after the epoch behaves alike.
TickMs == CooldownMs \div 2
StartTime == CooldownMs + TickMs

----------------------------------------------------------------------------
(* Helpers *)

Min(a, b) == IF a < b THEN a ELSE b

RemoveAt(s, i) == [j \in 1..(Len(s) - 1) |-> IF j < i THEN s[j] ELSE s[j + 1]]

\* A callback invocation: its kind and its argument (0 when it has none).
Ev(kind, val) == <<kind, val>>

CountKind(s, kind) == Cardinality({i \in 1..Len(s) : s[i][1] = kind})

----------------------------------------------------------------------------
(* Enemy population *)

\* The record pushed by spawnEnemies; hits counts the player hits taken.
NewEnemy == [health |-> EnemyHealth, lastShot |-> 0, hits |-> 0]

SpawnEnemies(es, count) == es \o [i \in 1..count |-> NewEnemy]

\* Mutant of KillEnemy: the replacement spawn is left out.
KillEnemyNoSpawn(es, i) == RemoveAt(es, i)

KillEnemy(es, i) ==
    LET rest == RemoveAt(es, i)
    IN  IF Len(rest) < TargetCount THEN SpawnEnemies(rest, 1) ELSE rest

----------------------------------------------------------------------------
(* Combat resolution: shoot(), reload() and the reload timer *)

\* Mutant of CanShoot: the reload in progress is not looked at.
CanShootWhileReloading == playerAmmo > 0

CanShoot == ~(playerAmmo <= 0 \/ isReloading)

DamageEnemy(es, i) ==
    [es EXCEPT ![i].health = @ - ShotDamage, ![i].hits = @ + 1]

\* Mutant of IsDead: the health is compared as it was before the hit.
IsDeadEarly(e) == e.health <= ShotDamage

IsDead(e) == e.health <= 0

\* The callbacks of one shot that fired, in the order shoot() and killEnemy()
\* invoke them: onAmmoChange, onHit on a hit, onKill when the hit killed.
\* Mutant of ShotEvents: onKill is invoked on every hit.
ShotEventsKillOnHit(ammo, hit, dead) ==
    <<Ev("ammo", ammo)>>
    \o (IF hit THEN <<Ev("hit", 0), Ev("kill", 0)>> ELSE <<>>)

ShotEvents(ammo, hit, dead) ==
    <<Ev("ammo", ammo)>>
    \o (IF hit THEN <<Ev("hit", 0)>> ELSE <<>>)
    \o (IF dead THEN <<Ev("kill", 0)>> ELSE <<>>)

\* shoot(): ray is the index in enemies of intersects[0].object, 0 when the
\* ray intersects no enemy mesh.
Shoot(ray) ==
    IF ~CanShoot
    THEN /\ UNCHANGED <<playerAmmo, enemies, kills, shotsFired>>
         /\ emitted' = <<>>
         /\ removed' = <<>>
    ELSE LET hit == ray # 0
             damaged == IF hit THEN DamageEnemy(enemies, ray) ELSE enemies
             dead == hit /\ IsDead(damaged[ray])
         IN  /\ playerAmmo' = playerAmmo - 1
             /\ enemies' = IF dead THEN KillEnemy(damaged, ray) ELSE damaged
             /\ removed' = IF dead THEN <<damaged[ray]>> ELSE <<>>
             /\ emitted' = ShotEvents(playerAmmo - 1, hit, dead)
             /\ kills' = kills + CountKind(emitted', "kill")
             /\ shotsFired' = shotsFired + 1

\* Mutant of ReloadBlocked: a full magazine does not stop the reload.
ReloadBlockedNotWhenFull == isReloading

ReloadBlocked == isReloading \/ playerAmmo = MagazineSize

\* Mutants of ToReload: the reserve is not looked at; the rounds still in
\* the magazine are not subtracted.
ToReloadIgnoresReserve(ammo, reserve) == MagazineSize - ammo

ToReloadIgnoresMagazine(ammo, reserve) == Min(MagazineSize, reserve)

ToReload(ammo, reserve) == Min(MagazineSize - ammo, reserve)

\* reload(): the setTimeout callback closes over needed and toReload; the
\* entry also notes the reserve the reload started with.
Reload ==
    IF ReloadBlocked
    THEN UNCHANGED <<isReloading, timers>>
    ELSE /\ isReloading' = TRUE
         /\ timers' = Append(timers,
                [needed |-> MagazineSize - playerAmmo,
                 toReload |-> ToReload(playerAmmo, playerReserveAmmo),
                 reserve |-> playerReserveAmmo])

----------------------------------------------------------------------------
(* Enemy fire: the shoot check of updateEnemies, one enemy at a time *)

\* Inputs of one enemy's shoot check: its distance to the camera, the
\* distances of the walls the ray to the camera intersects, nearest first
\* (what the code reads of intersectObjects), and Math.random() in tenths.
Dists == {40, 50, 60}
Walls == {<<>>, <<30>>, <<40>>, <<70>>}
Rolls == {2, 3, 4}

\* Variants of the test of line 426: without the distance, and with the
\* cooldown met at exactly CooldownMs.
ShouldAttemptAnyRange(e, currentTime, dist) ==
    currentTime - e.lastShot > CooldownMs

ShouldAttemptAtCooldown(e, currentTime, dist) ==
    dist < DetectRadius /\ currentTime - e.lastShot >= CooldownMs

ShouldAttempt(e, currentTime, dist) ==
    dist < DetectRadius /\ currentTime - e.lastShot > CooldownMs

\* Variant of line 437 that takes every ray as unobstructed.
VisibleThroughWalls(intersects, dist) == TRUE

Visible(intersects, dist) == Len(intersects) = 0 \/ intersects[1] > dist

RollHits(roll) == roll > MissTenths

\* A landed shot: the new health and the callbacks it invokes.
HitPlayer(health) ==
    LET h == health - EnemyShotDamage
    IN  [health |-> h,
         emitted |-> <<Ev("health", h)>>
                     \o (IF h <= 0 THEN <<Ev("death", 0)>> ELSE <<>>)]

\* Variant of the shoot check that stamps lastShot only when the ray to the
\* player is unobstructed.
ShootCheckStampOnClear(e, health, currentTime, dist, wall, roll) ==
    IF ShouldAttempt(e, currentTime, dist) /\ Visible(wall, dist)
    THEN LET shot == [e EXCEPT !.lastShot = currentTime]
         IN  IF RollHits(roll)
             THEN [enemy |-> shot] @@ HitPlayer(health)
             ELSE [enemy |-> shot, health |-> health, emitted |-> <<>>]
    ELSE [enemy |-> e, health |-> health, emitted |-> <<>>]

\* Lines 425-448 for enemy e with the player's health as the loop found it.
ShootCheck(e, health, currentTime, dist, wall, roll) ==
    IF ShouldAttempt(e, currentTime, dist)
    THEN LET shot == [e EXCEPT !.lastShot = currentTime]
         IN  IF Visible(wall, dist) /\ RollHits(roll)
             THEN [enemy |-> shot] @@ HitPlayer(health)
             ELSE [enemy |-> shot, health |-> health, emitted |-> <<>>]
    ELSE [enemy |-> e, health |-> health, emitted |-> <<>>]

\* The forEach of updateEnemies from enemy i on: every outcome the inputs
\* allow, as [enemies, health, emitted].
\* The enemies' distances are drawn from dists.
RECURSIVE UpdateEnemiesFrom(_, _, _, _, _, _)
UpdateEnemiesFrom(i, es, health, out, currentTime, dists) ==
    IF i > Len(es)
    THEN {[enemies |-> es, health |-> health, emitted |-> out]}
    ELSE LET steps == {ShootCheck(es[i], health, currentTime, d, w, r) :
                          d \in dists, w \in Walls, r \in Rolls}
         IN  UNION {UpdateEnemiesFrom(i + 1, [es EXCEPT ![i] = st.enemy],
                                      st.health, out \o st.emitted, currentTime,
                                      dists) :
                       st \in steps}

UpdateEnemies(currentTime, dists) ==
    UpdateEnemiesFrom(1, enemies, playerHealth, <<>>, currentTime, dists)

----------------------------------------------------------------------------
(* Look: mouse movement and recoil, angles in microradians *)

Pi == 3141592
HalfPi == 1570796
RadPerPixel == 2000

\* Pixels of event.movementY, and (Math.random() - 0.5) * 0.02 of the
\* recoil, which ranges over [-10000, 10000) microradians.
MovementYs == {-400, -100, 100, 400}
Recoils == {-10000, 0, 5000}

\* An angle brought back into (-Pi, Pi], as an Euler read off a quaternion.
WrapAngle(a) ==
    IF a > Pi THEN a - 2 * Pi ELSE IF a <= -Pi THEN a + 2 * Pi ELSE a

\* Line 290.
ClampPitch(x) ==
    IF x < -HalfPi THEN -HalfPi ELSE IF x > HalfPi THEN HalfPi ELSE x

\* Lines 287-292 on a camera turned by the angle rot about its x axis.
\* setFromQuaternion in order YXZ reads rot itself up to a quarter turn;
\* past it the camera is upside down and the Euler read is
\* (Pi - rot, Pi, Pi), resp. (-Pi - rot, Pi, Pi). The x component is moved
\* and clamped and the quaternion set from the result.
MouseLook(rot, movementY) ==
    IF rot > HalfPi
    THEN WrapAngle(Pi - ClampPitch((Pi - rot) - movementY * RadPerPixel))
    ELSE IF rot < -HalfPi
    THEN WrapAngle(-Pi - ClampPitch((-Pi - rot) - movementY * RadPerPixel))
    ELSE ClampPitch(rot - movementY * RadPerPixel)

\* Line 328: the recoil is added to camera.rotation.x as it is.
Recoil(rot, r) == WrapAngle(rot + r)

OnMouseMove(movementY) ==
    /\ pitch' = IF isLocked THEN MouseLook(pitch, movementY) ELSE pitch
    /\ emitted' = <<>>
    /\ removed' = <<>>
    /\ op' = "mousemove"
    /\ UNCHANGED <<playerHealth, playerAmmo, playerReserveAmmo, isReloading,
                   isLocked, enemies, timers, disposed, now, kills, shotsFired,
                   frameVars, moveVars>>

----------------------------------------------------------------------------
(* Player movement: updatePlayer, lengths in thousandths of a unit *)

GroundY == 10000
ArenaLimit == 95000
JumpImpulse == 15000
Damping == 10
Gravity == 98
Acceleration == 100
UnitDiagonal == 707

Vec(x, y, z) == [x |-> x, y |-> y, z |-> z]

\* A THREE.Box3 from its centre and size.
Box(c, size) ==
    [min |-> Vec(c.x - size.x \div 2, c.y - size.y \div 2, c.z - size.z \div 2),
     max |-> Vec(c.x + size.x \div 2, c.y + size.y \div 2, c.z + size.z \div 2)]

\* Box3.intersectsBox: boxes that only touch intersect.
IntersectsBox(a, b) ==
    ~ (\/ b.max.x < a.min.x \/ b.min.x > a.max.x
       \/ b.max.y < a.min.y \/ b.min.y > a.max.y
       \/ b.max.z < a.min.z \/ b.min.z > a.max.z)

PlayerSize == Vec(2000, 10000, 2000)
CoverPositions ==
    {<<20, 30>>, <<-20, 30>>, <<20, -30>>, <<-20, -30>>,
     <<40, 0>>, <<-40, 0>>, <<0, 40>>, <<0, -40>>}

\* this.walls: the four arena walls and the eight cover boxes.
Obstacles ==
    {Box(Vec(0, 10000, -100000), Vec(200000, 20000, 2000)),
     Box(Vec(0, 10000, 100000), Vec(200000, 20000, 2000)),
     Box(Vec(100000, 10000, 0), Vec(2000, 20000, 200000)),
     Box(Vec(-100000, 10000, 0), Vec(2000, 20000, 200000))}
    \cup {Box(Vec(c[1] * 1000, 5000, c[2] * 1000), Vec(8000, 10000, 8000)) :
             c \in CoverPositions}

\* The test of lines 476-483 for a camera at p.
HitsWall(p) == \E wall \in Obstacles : IntersectsBox(Box(p, PlayerSize), wall)

Num(b) == IF b THEN 1 ELSE 0

\* Lines 458-460: the normalised direction, in thousandths.
Direction ==
    LET z == Num(moveForward) - Num(moveBackward)
        x == Num(moveRight) - Num(moveLeft)
        len == IF x # 0 /\ z # 0 THEN UnitDiagonal ELSE 1000
    IN  [x |-> x * len, z |-> z * len]

\* The camera's local z axis in world coordinates for the three pitches the
\* look takes where the player moves: level, straight up, straight down.
LocalZ(rot) ==
    CASE rot = 0 -> Vec(0, 0, 1)
      [] rot = HalfPi -> Vec(0, -1, 0)
      [] rot = -HalfPi -> Vec(0, 1, 0)

\* Variant of lines 480-482 that restores the position but keeps the
\* velocity.
CollideKeepsVelocity(prevPosition, to, vel) ==
    IF HitsWall(to)
    THEN [position |-> prevPosition, velocity |-> vel, hit |-> TRUE]
    ELSE [position |-> to, velocity |-> vel, hit |-> FALSE]

\* Lines 476-489.
Collide(prevPosition, to, vel) ==
    IF HitsWall(to)
    THEN [position |-> prevPosition,
          velocity |-> [vel EXCEPT !.x = 0, !.z = 0], hit |-> TRUE]
    ELSE [position |-> to, velocity |-> vel, hit |-> FALSE]

\* Variant of lines 499-500 that leaves the position as it is.
ClampArenaOff(p) == p

\* Lines 499-500.
ClampArena(p) ==
    [p EXCEPT !.x = IF @ < -ArenaLimit THEN -ArenaLimit
                    ELSE IF @ > ArenaLimit THEN ArenaLimit ELSE @,
              !.z = IF @ < -ArenaLimit THEN -ArenaLimit
                    ELSE IF @ > ArenaLimit THEN ArenaLimit ELSE @]

\* updatePlayer(delta) with delta = ms / 1000, ms a multiple of 100: the
\* new position, velocity and canJump, and what the tick went through.
\* Velocities are multiples of 10 and stay so, which makes every division
\* below exact.
UpdatePlayer(ms) ==
    LET vx1 == velocity.x - velocity.x * ((Damping * ms) \div 1000)
        vz1 == velocity.z - velocity.z * ((Damping * ms) \div 1000)
        vy == velocity.y - Gravity * ms
        vz == IF moveForward \/ moveBackward
              THEN vz1 - (Direction.z * Acceleration * ms) \div 1000 ELSE vz1
        vx == IF moveLeft \/ moveRight
              THEN vx1 - (Direction.x * Acceleration * ms) \div 1000 ELSE vx1
        dx == (vx \div 10) * (ms \div 100)
        dz == (vz \div 10) * (ms \div 100)
        dy == (vy \div 10) * (ms \div 100)
        axis == LocalZ(pitch)
        to == Vec(position.x + dx + axis.x * dz,
                  position.y + axis.y * dz + dy,
                  position.z + axis.z * dz)
        c == Collide(position, to, Vec(vx, vy, vz))
        landed == c.position.y < GroundY
        p == IF landed THEN [c.position EXCEPT !.y = GroundY] ELSE c.position
        v == IF landed THEN [c.velocity EXCEPT !.y = 0] ELSE c.velocity
    IN  [position |-> ClampArena(p), velocity |-> v,
         canJump |-> (landed \/ canJump),
         step |-> [prevPosition |-> position, moved |-> to, hit |-> c.hit,
                   landed |-> landed]]

\* Variant of the Space case that leaves canJump set.
JumpKeepsFlag(vel, can) ==
    [velocity |-> IF can THEN [vel EXCEPT !.y = @ + JumpImpulse] ELSE vel,
     canJump |-> can]

\* Lines 254-255.
Jump(vel, can) ==
    [velocity |-> IF can THEN [vel EXCEPT !.y = @ + JumpImpulse] ELSE vel,
     canJump |-> FALSE]

----------------------------------------------------------------------------
(* Frames *)

\* One requestAnimationFrame callback, ms after the previous one: animate()
\* returns at once without the pointer lock, else updatePlayer runs with
\* clock.getDelta() = ms / 1000, then updateEnemies reads Date.now() once
\* and runs every enemy's shoot check in array order, the enemies'
\* distances drawn from dists.
Animate(ms, dists) ==
    /\ now + ms <= StartTime + MaxTicks * TickMs
    /\ now' = now + ms
    /\ frames' = frames + 1
    /\ IF ~isLocked
       THEN /\ UNCHANGED <<playerHealth, enemies, position, velocity,
                           canJump, step>>
            /\ emitted' = <<>>
       ELSE /\ LET up == UpdatePlayer(ms)
               IN  /\ position' = up.position
                   /\ velocity' = up.velocity
                   /\ canJump' = up.canJump
                   /\ step' = up.step
            /\ \E res \in UpdateEnemies(now + ms, dists) :
                  /\ enemies' = res.enemies
                  /\ playerHealth' = res.health
                  /\ emitted' = res.emitted
    /\ removed' = <<>>
    /\ op' = "tick"
    /\ UNCHANGED <<playerAmmo, playerReserveAmmo, isReloading, isLocked,
                   timers, disposed, kills, shotsFired, frameVars, lookVars,
                   moveKeys>>

\* The same frame followed enemy by enemy: probe before any shoot check.
NoProbe ==
    [i |-> 0, dist |-> 0, wall |-> <<>>, roll |-> 0, lastShot |-> 0,
     health |-> 0, emitted |-> 0, t |-> 0]

\* animate() up to the forEach of updateEnemies: without the pointer lock it
\* returns, else updatePlayer runs, Date.now() is read and the loop starts
\* at the first enemy.
BeginFrame ==
    /\ cursor = 0
    /\ now < StartTime + MaxTicks * TickMs
    /\ now' = now + TickMs
    /\ frames' = frames + 1
    /\ IF isLocked
       THEN LET up == UpdatePlayer(TickMs)
            IN  /\ position' = up.position
                /\ velocity' = up.velocity
                /\ canJump' = up.canJump
                /\ step' = up.step
       ELSE UNCHANGED <<position, velocity, canJump, step>>
    /\ cursor' = IF isLocked /\ enemies # <<>> THEN 1 ELSE 0
    /\ emitted' = <<>>
    /\ removed' = <<>>
    /\ op' = "tick"
    /\ UNCHANGED <<playerHealth, playerAmmo, playerReserveAmmo, isReloading,
                   isLocked, enemies, timers, disposed, kills, shotsFired,
                   probe, lookVars, moveKeys>>

\* One iteration of the forEach: the shoot check of enemies[cursor] at the
\* time the frame read, with what it computed and drew noted in probe.
CheckEnemy(dist, wall, roll) ==
    /\ cursor \in 1..Len(enemies)
    /\ LET res == ShootCheck(enemies[cursor], playerHealth, now, dist, wall, roll)
       IN  /\ enemies' = [enemies EXCEPT ![cursor] = res.enemy]
           /\ playerHealth' = res.health
           /\ emitted' = emitted \o res.emitted
    /\ probe' = [i |-> cursor, dist |-> dist, wall |-> wall, roll |-> roll,
                 lastShot |-> enemies[cursor].lastShot,
                 health |-> playerHealth, emitted |-> Len(emitted), t |-> now]
    /\ cursor' = IF cursor = Len(enemies) THEN 0 ELSE cursor + 1
    /\ removed' = <<>>
    /\ op' = "check"
    /\ UNCHANGED <<playerAmmo, playerReserveAmmo, isReloading, isLocked,
                   timers, disposed, now, kills, shotsFired, lookVars,
                   moveVars>>

----------------------------------------------------------------------------
(* Handlers *)

Buttons == {0, 2}
Rays == 0..TargetCount
Keys == {"KeyR", "KeyE"}

\* onMouseDown: op tells a press that reached shoot() from one that did not.
\* A shot that fires ends with the recoil of lines 327-329, r being its
\* first random draw.
OnMouseDown(button, ray, r) ==
    /\ ray <= Len(enemies)
    /\ (isLocked /\ button = 0 /\ CanShoot) => shotsFired < MaxShots
    /\ IF ~isLocked \/ button # 0
       THEN /\ UNCHANGED <<playerAmmo, enemies, kills, shotsFired>>
            /\ emitted' = <<>>
            /\ removed' = <<>>
            /\ op' = "mousedown"
       ELSE /\ Shoot(ray)
            /\ op' = "shoot"
    /\ pitch' = IF isLocked /\ button = 0 /\ CanShoot
                THEN Recoil(pitch, r) ELSE pitch
    /\ UNCHANGED <<playerHealth, playerReserveAmmo, isReloading, isLocked,
                   timers, disposed, now, frameVars, moveVars>>

\* onKeyDown: the movement keys set their flag, Space jumps, KeyR reloads;
\* a key the switch does not list does nothing.
OnKeyDown(code) ==
    /\ IF code = "KeyR" THEN Reload ELSE UNCHANGED <<isReloading, timers>>
    /\ moveForward' = (code = "KeyW" \/ moveForward)
    /\ moveBackward' = (code = "KeyS" \/ moveBackward)
    /\ moveLeft' = (code = "KeyA" \/ moveLeft)
    /\ moveRight' = (code = "KeyD" \/ moveRight)
    /\ IF code = "Space"
       THEN /\ velocity' = Jump(velocity, canJump).velocity
            /\ canJump' = Jump(velocity, canJump).canJump
       ELSE UNCHANGED <<velocity, canJump>>
    /\ emitted' = <<>>
    /\ removed' = <<>>
    /\ op' = code
    /\ UNCHANGED <<playerHealth, playerAmmo, playerReserveAmmo, isLocked,
                   enemies, disposed, now, kills, shotsFired, frameVars,
                   lookVars, position, frames, step>>

\* onKeyUp: the movement keys clear their flag.
OnKeyUp(code) ==
    /\ moveForward' = (code # "KeyW" /\ moveForward)
    /\ moveBackward' = (code # "KeyS" /\ moveBackward)
    /\ moveLeft' = (code # "KeyA" /\ moveLeft)
    /\ moveRight' = (code # "KeyD" /\ moveRight)
    /\ emitted' = <<>>
    /\ removed' = <<>>
    /\ op' = "keyup"
    /\ UNCHANGED <<playerHealth, playerAmmo, playerReserveAmmo, isReloading,
                   isLocked, enemies, timers, disposed, now, kills, shotsFired,
                   frameVars, lookVars, position, velocity, canJump, frames,
                   step>>

\* Variant of the timer callback that moves the rounds but leaves the
\* reload flag set.
ReloadTimeoutKeepsFlag ==
    /\ timers # <<>>
    /\ LET toReload == Head(timers).toReload
       IN  /\ playerAmmo' = playerAmmo + toReload
           /\ playerReserveAmmo' = playerReserveAmmo - toReload
           /\ emitted' = <<Ev("ammo", playerAmmo + toReload)>>
    /\ isReloading' = isReloading
    /\ timers' = Tail(timers)
    /\ removed' = <<>>
    /\ op' = "timeout"
    /\ UNCHANGED <<playerHealth, isLocked, enemies, disposed, now, kills,
                   shotsFired, frameVars, lookVars, moveVars>>

\* The callback reload() handed to setTimeout, run when its delay is over.
ReloadTimeout ==
    /\ timers # <<>>
    /\ LET toReload == Head(timers).toReload
       IN  /\ playerAmmo' = playerAmmo + toReload
           /\ playerReserveAmmo' = playerReserveAmmo - toReload
           /\ emitted' = <<Ev("ammo", playerAmmo + toReload)>>
    /\ isReloading' = FALSE
    /\ timers' = Tail(timers)
    /\ removed' = <<>>
    /\ op' = "timeout"
    /\ UNCHANGED <<playerHealth, isLocked, enemies, disposed, now, kills,
                   shotsFired, frameVars, lookVars, moveVars>>

\* dispose(): releases the renderer and detaches its canvas; it removes no
\* listener and clears no timer.
Dispose ==
    /\ disposed' = TRUE
    /\ emitted' = <<>>
    /\ removed' = <<>>
    /\ op' = "dispose"
    /\ UNCHANGED <<playerHealth, playerAmmo, playerReserveAmmo, isReloading,
                   isLocked, enemies, timers, now, kills, shotsFired, frameVars,
                   lookVars, moveVars>>

\* The pointerlockchange listener: a detached canvas cannot hold the lock.
OnPointerLockChange(locked) ==
    /\ locked => ~disposed
    /\ isLocked' = locked
    /\ emitted' = <<>>
    /\ removed' = <<>>
    /\ op' = "lockchange"
    /\ UNCHANGED <<playerHealth, playerAmmo, playerReserveAmmo, isReloading,
                   enemies, timers, disposed, now, kills, shotsFired, frameVars,
                   lookVars, moveVars>>

----------------------------------------------------------------------------
(* Specification of a match: input, reload timer and teardown *)

\* Magazine and reserve at the start of a run: the constructor's 30/90 and
\* states a match reaches from it by firing and reloading
\* (5/90: 25 shots; 10/50: 20 shots, reload, 20 shots, reload, 20 shots;
\*  3/2: 30 shots, reload, 30 shots, reload, 28 shots, reload, 27 shots).
StartAmmo == {<<MagazineSize, StartReserve>>, <<5, 90>>, <<10, 50>>, <<3, 2>>}

\* The camera where the constructor puts it, and step before any tick.
Origin == Vec(0, GroundY, 0)
NoStep(p) == [prevPosition |-> p, moved |-> p, hit |-> FALSE, landed |-> FALSE]

InitWith(ammo, health) ==
    /\ playerHealth = health
    /\ playerAmmo = ammo[1]
    /\ playerReserveAmmo = ammo[2]
    /\ isReloading = FALSE
    /\ isLocked = FALSE
    /\ enemies = SpawnEnemies(<<>>, TargetCount)
    /\ timers = <<>>
    /\ disposed = FALSE
    /\ now = StartTime
    /\ emitted = <<>>
    /\ removed = <<>>
    /\ op = "init"
    /\ kills = 0
    /\ shotsFired = 0
    /\ cursor = 0
    /\ probe = NoProbe
    /\ pitch = 0
    /\ position = Origin
    /\ velocity = Vec(0, 0, 0)
    /\ canJump = FALSE
    /\ moveForward = FALSE
    /\ moveBackward = FALSE
    /\ moveLeft = FALSE
    /\ moveRight = FALSE
    /\ frames = 0
    /\ step = NoStep(Origin)

Init == \E ammo \in StartAmmo : InitWith(ammo, PlayerStartHealth)

\* The recoil of a shot in this specification: Math.random() drew 0.5.
NoRecoil == {0}

Next ==
    \/ \E button \in Buttons, ray \in Rays, r \in NoRecoil :
          OnMouseDown(button, ray, r)
    \/ \E code \in Keys : OnKeyDown(code)
    \/ ReloadTimeout
    \/ Dispose
    \/ \E locked \in BOOLEAN : OnPointerLockChange(locked)

Spec == Init /\ [][Next]_vars

----------------------------------------------------------------------------
(* Specification of the frames of a match: enemy fire on the player *)

\* The player's health at the start of a run: the constructor's 100, and 10,
\* which a match reaches after nine landed enemy shots.
StartHealth == {PlayerStartHealth, 10}

InitTick ==
    \E health \in StartHealth : InitWith(<<MagazineSize, StartReserve>>, health)

NextTick ==
    \/ Animate(TickMs, Dists)
    \/ \E locked \in BOOLEAN : OnPointerLockChange(locked)

SpecTick == InitTick /\ [][NextTick]_vars

\* The same match with the timer guaranteed: a callback handed to
\* setTimeout and never cleared is run by the event loop.
SpecLive ==
    Init /\ [][Next]_vars /\ WF_vars(ReloadTimeout)

----------------------------------------------------------------------------
(* Specification of the look: mouse movement, fire with recoil, reload *)

\* The crosshair on no enemy or on the first one.
LookRays == {0, 1}

NextLook ==
    \/ \E movementY \in MovementYs : OnMouseMove(movementY)
    \/ \E button \in Buttons, ray \in LookRays, r \in Recoils :
          OnMouseDown(button, ray, r)
    \/ \E locked \in BOOLEAN : OnPointerLockChange(locked)

InitLook == InitWith(<<MagazineSize, StartReserve>>, PlayerStartHealth)

SpecLook == InitLook /\ [][NextLook]_vars

----------------------------------------------------------------------------
(* Specification of the player's movement: keys, look and frames *)

\* What clock.getDelta() returns in milliseconds: nothing on the first
\* frame, a tenth of a second, a second after a stall.
Deltas == {0, 100, 1000}

\* Every enemy stays outside the detection radius.
FarDists == {60}

\* The keys pressed and released: forward, and the one that moves the
\* camera towards +x.
MoveKeyCodes == {"KeyW", "KeyA"}
MoveCodes == MoveKeyCodes \cup {"Space"}

\* A mouse movement that takes the pitch from level to the upper clamp.
Flicks == {-1600}

\* Where the run starts: the constructor's origin before any frame, or at
\* rest after a frame of a tenth of a second one step from the cover box
\* at (40, 0) or one step from the arena limit.
StartPositions == {Origin, Vec(34000, GroundY, 0), Vec(94000, GroundY, 0)}

AtRest(p) ==
    [prevPosition |-> p,
     moved |-> [p EXCEPT !.y = @ - (Gravity * 100 * 100) \div 1000],
     hit |-> FALSE, landed |-> TRUE]

InitMove ==
    /\ playerHealth = PlayerStartHealth
    /\ playerAmmo = MagazineSize
    /\ playerReserveAmmo = StartReserve
    /\ isReloading = FALSE
    /\ isLocked = TRUE
    /\ enemies = SpawnEnemies(<<>>, TargetCount)
    /\ timers = <<>>
    /\ disposed = FALSE
    /\ now = StartTime
    /\ emitted = <<>>
    /\ removed = <<>>
    /\ op = "lockchange"
    /\ kills = 0
    /\ shotsFired = 0
    /\ cursor = 0
    /\ probe = NoProbe
    /\ pitch = 0
    /\ position \in StartPositions
    /\ velocity = Vec(0, 0, 0)
    /\ canJump = (position # Origin)
    /\ moveForward = FALSE
    /\ moveBackward = FALSE
    /\ moveLeft = FALSE
    /\ moveRight = FALSE
    /\ frames = 0
    /\ step = IF position = Origin THEN NoStep(Origin) ELSE AtRest(position)

NextMove ==
    \/ frames < MaxFrames /\ \E ms \in Deltas : Animate(ms, FarDists)
    \/ \E code \in MoveCodes : OnKeyDown(code)
    \/ \E code \in MoveKeyCodes : OnKeyUp(code)
    \/ \E movementY \in Flicks : OnMouseMove(movementY)

SpecMove == InitMove /\ [][NextMove]_vars

----------------------------------------------------------------------------
(* Specification of one frame at a time, enemy by enemy *)

\* The lastShot of the five enemies when the run starts, three frames into
\* a match: the second, third and fourth enemy made their first attempt in
\* the first, second and third frame, the others none yet.
StaggeredShots ==
    <<0, StartTime + TickMs, StartTime + 2 * TickMs, StartTime + 3 * TickMs, 0>>

InitFrame ==
    /\ playerHealth \in StartHealth
    /\ playerAmmo = MagazineSize
    /\ playerReserveAmmo = StartReserve
    /\ isReloading = FALSE
    /\ isLocked = TRUE
    /\ enemies = [i \in 1..TargetCount |->
                    [NewEnemy EXCEPT !.lastShot = StaggeredShots[i]]]
    /\ timers = <<>>
    /\ disposed = FALSE
    /\ now = StartTime + 3 * TickMs
    /\ emitted = <<>>
    /\ removed = <<>>
    /\ op = "tick"
    /\ kills = 0
    /\ shotsFired = 0
    /\ cursor = 0
    /\ probe = NoProbe
    /\ pitch = 0
    /\ position = Origin
    /\ velocity = Vec(0, 0, 0)
    /\ canJump = TRUE
    /\ moveForward = FALSE
    /\ moveBackward = FALSE
    /\ moveLeft = FALSE
    /\ moveRight = FALSE
    /\ frames = 3
    /\ step = [prevPosition |-> Origin,
               moved |-> Vec(0, GroundY - (Gravity * TickMs * TickMs) \div 1000, 0),
               hit |-> FALSE, landed |-> TRUE]

\* An event handler runs between frames, never inside the forEach.
NextFrame ==
    \/ BeginFrame
    \/ \E dist \in Dists, wall \in Walls, roll \in Rolls :
          CheckEnemy(dist, wall, roll)
    \/ cursor = 0 /\ \E locked \in BOOLEAN : OnPointerLockChange(locked)

SpecFrame == InitFrame /\ [][NextFrame]_vars

----------------------------------------------------------------------------
(* Properties *)

Kinds == {"health", "ammo", "kill", "death", "hit"}

\* C1: in every state the magazine holds 0..30 rounds, the reserve 0..90,
\* and magazine + reserve lies in 0..120.
C1_AmmoWithinCapacity ==
    /\ playerAmmo \in 0..MagazineSize
    /\ playerReserveAmmo \in 0..StartReserve
    /\ playerAmmo + playerReserveAmmo \in 0..(MagazineSize + StartReserve)

\* A reload that took the last rounds of the reserve has completed after
\* shots were fired.
C1_ReserveExhausted ==
    /\ op = "timeout"
    /\ shotsFired > 0
    /\ playerReserveAmmo = 0
    /\ playerAmmo \in 1..(MagazineSize - 1)

\* C2: the player's health is in 0..100 in every state, whatever enemy
\* shots land.
C2_HealthNeverNegative == playerHealth \in 0..PlayerStartHealth

\* C3: once the engine is disposed, a reload completion that was in flight
\* changes neither magazine nor reserve and invokes no callback.
C3_DisposedReloadDiscarded ==
    [][(disposed /\ op' = "timeout") =>
          /\ UNCHANGED <<playerAmmo, playerReserveAmmo>>
          /\ emitted' = <<>>]_vars

\* C4: a frame invokes each kind of callback at most once.
C4_OncePerTick ==
    op = "tick" => \A kind \in Kinds : CountKind(emitted, kind) <= 1

\* C5: the live enemy count is 5 in every state.
C5_PopulationAtTarget == Len(enemies) = TargetCount

\* A shot has just killed an enemy and its replacement stands last in the
\* array.
C5_KillRespawned ==
    /\ op = "shoot"
    /\ removed # <<>>
    /\ Len(enemies) = TargetCount
    /\ enemies[TargetCount] = NewEnemy

\* C6: an enemy that took N player hits has health 100 - 34*N; every live
\* enemy has 0 < health <= 100, and every enemy taken out of the live set
\* had health <= 0, reached on its third hit.
C6_DamageAndRemoval ==
    /\ \A i \in 1..Len(enemies) :
          /\ enemies[i].health = EnemyHealth - ShotDamage * enemies[i].hits
          /\ enemies[i].health > 0
          /\ enemies[i].health <= EnemyHealth
    /\ \A j \in 1..Len(removed) :
          /\ removed[j].health = EnemyHealth - ShotDamage * removed[j].hits
          /\ removed[j].health <= 0
          /\ removed[j].hits = 3

\* An enemy was removed on its third hit while another live enemy carries
\* one hit.
C6_RemovedOnThirdHit ==
    /\ Len(removed) = 1
    /\ removed[1].hits = 3
    /\ \E i \in 1..Len(enemies) : enemies[i].hits = 1

\* C7: onKill is invoked exactly when a shot removes an enemy, once, after
\* that shot's onHit, and the removed enemy went 66, 32, -2; no kill comes
\* before the third shot.
C7_KillOncePerAgent ==
    /\ CountKind(emitted, "kill") = Len(removed)
    /\ Len(removed) <= 1
    /\ removed # <<>> =>
          /\ op = "shoot"
          /\ emitted = <<Ev("ammo", playerAmmo), Ev("hit", 0), Ev("kill", 0)>>
          /\ removed[1].health = -2
    /\ \A i \in 1..Len(enemies) :
          \/ enemies[i].hits = 0 /\ enemies[i].health = 100
          \/ enemies[i].hits = 1 /\ enemies[i].health = 66
          \/ enemies[i].hits = 2 /\ enemies[i].health = 32
    /\ 3 * kills <= shotsFired

\* The end of the scenario: a magazine of 5 fired empty with no reload,
\* three of the shots on one enemy, exactly one kill.
C7_ScenarioEnd ==
    /\ shotsFired = 5
    /\ playerAmmo = 0
    /\ playerReserveAmmo = StartReserve
    /\ kills = 1
    /\ \A i \in 1..Len(enemies) : enemies[i].hits = 0

\* C8: the completion of a reload started with magazine m and reserve r
\* leaves magazine = m + min(30 - m, r) and reserve = r - min(30 - m, r),
\* the sum unchanged.
C8_ReloadMovesAmmo ==
    [][op' = "timeout" =>
          LET m == MagazineSize - Head(timers).needed
              r == Head(timers).reserve
              moved == Min(MagazineSize - m, r)
          IN  /\ playerAmmo' = m + moved
              /\ playerReserveAmmo' = r - moved
              /\ playerAmmo' + playerReserveAmmo' = m + r
              /\ isReloading' = FALSE]_vars

\* The reload of a magazine of 10 with a reserve of 50 has completed: 30/30.
C8_TenFiftyReloaded ==
    /\ op = "timeout"
    /\ shotsFired = 0
    /\ playerAmmo = 30
    /\ playerReserveAmmo = 30

\* C9: Reload during a reload or with a full magazine changes neither
\* magazine, reserve nor the reloading flag and schedules no completion.
C9_BlockedReloadNoOp ==
    [][(op' = "KeyR" /\ (isReloading \/ playerAmmo = MagazineSize)) =>
          UNCHANGED <<playerAmmo, playerReserveAmmo, isReloading, timers>>]_vars

\* The reload key was pressed on a full magazine and nothing is scheduled.
C9_ReloadOnFullMagazine ==
    /\ op = "KeyR"
    /\ playerAmmo = MagazineSize
    /\ ~isReloading
    /\ timers = <<>>

\* C10: shoot() with an empty magazine or during a reload changes nothing
\* and invokes no callback; otherwise it takes exactly one round from the
\* magazine; while a reload is in progress magazine and reserve stay put.
C10_FireBlockedOrOneRound ==
    [][/\ op' = "shoot" =>
             IF playerAmmo <= 0 \/ isReloading
             THEN /\ UNCHANGED <<playerAmmo, playerReserveAmmo, enemies,
                                 isReloading, timers, kills>>
                  /\ emitted' = <<>>
             ELSE /\ playerAmmo' = playerAmmo - 1
                  /\ UNCHANGED playerReserveAmmo
                  /\ emitted'[1] = Ev("ammo", playerAmmo - 1)
       /\ (isReloading /\ isReloading') =>
             UNCHANGED <<playerAmmo, playerReserveAmmo>>]_vars

\* shoot() was called on an empty magazine with no reload in progress.
C10_FiredOnEmpty ==
    /\ op = "shoot"
    /\ emitted = <<>>
    /\ playerAmmo = 0
    /\ ~isReloading

\* What the last shoot check read, from probe: the time since the enemy's
\* lastShot, whether the distance was inside the detection radius, whether
\* the nearest wall on the ray (if any) was farther than the player.
ProbeElapsed == probe.t - probe.lastShot
ProbeInRange == probe.dist < DetectRadius
ProbeClear == probe.wall = <<>> \/ probe.wall[1] > probe.dist
ProbeEmitted == SubSeq(emitted, probe.emitted + 1, Len(emitted))

\* C11: a shoot check of an enemy whose distance to the player is 50 or
\* more leaves that enemy's lastShot and the player's health as they were,
\* whatever time has passed since its last shot.
C11_OutOfRangeNoAttempt ==
    (op = "check" /\ ~ProbeInRange) =>
        /\ enemies[probe.i].lastShot = probe.lastShot
        /\ playerHealth = probe.health
        /\ ProbeEmitted = <<>>

\* An enemy at distance 60 with the cooldown long over, nothing in the way
\* and a roll that would hit has been checked.
C11_FarEnemyChecked ==
    /\ op = "check"
    /\ probe.dist = 60
    /\ ProbeElapsed > CooldownMs
    /\ probe.wall = <<>>
    /\ probe.roll > MissTenths
    /\ playerHealth = probe.health

\* C16 as stated: an enemy inside the detection radius attempts a shot
\* exactly when at least 2000 ms have passed since its last attempt, so
\* also at exactly 2000 ms.
C16_AttemptAtLeastCooldown ==
    (op = "check" /\ ProbeInRange) =>
        (enemies[probe.i].lastShot = probe.t <=> ProbeElapsed >= CooldownMs)

\* C16 amended: an enemy inside the detection radius attempts a shot
\* exactly when more than 2000 ms have passed since its last attempt; at
\* exactly 2000 ms, as with less, it does not.
C16_AttemptAfterCooldown ==
    (op = "check" /\ ProbeInRange) =>
        (enemies[probe.i].lastShot = probe.t <=> ProbeElapsed > CooldownMs)

\* An enemy inside the radius was checked exactly 2000 ms after its last
\* attempt and made none.
C16_ExactlyCooldownNoAttempt ==
    /\ op = "check"
    /\ ProbeInRange
    /\ ProbeElapsed = CooldownMs
    /\ enemies[probe.i].lastShot = probe.lastShot

\* C17: every attempt (the enemy in range, the cooldown over) sets the
\* enemy's lastShot to the frame's time, whether or not a wall is in the
\* way and whether the roll hits, so that the enemy cannot attempt again
\* until a full cooldown has passed.
C17_AttemptStampsLastShot ==
    (op = "check" /\ ProbeInRange /\ ProbeElapsed > CooldownMs) =>
        /\ enemies[probe.i].lastShot = probe.t
        /\ \A later \in {TickMs, CooldownMs} :
              ~ShouldAttempt(enemies[probe.i], probe.t + later, probe.dist)

\* An attempt with a wall nearer than the player: lastShot stamped, health
\* untouched.
C17_OccludedAttempt ==
    /\ op = "check"
    /\ ProbeInRange
    /\ ProbeElapsed > CooldownMs
    /\ ~ProbeClear
    /\ enemies[probe.i].lastShot = probe.t
    /\ playerHealth = probe.health

\* C18: a shoot check changes the player's health only when it is an
\* attempt with a clear line of sight; an attempt with a wall nearer than
\* the player never does. A landed shot lowers the health by exactly 10,
\* invokes onHealthChange with the new health, and invokes onDeath exactly
\* when the new health is 0 or less.
C18_HealthOnlyByClearShot ==
    op = "check" =>
        LET attempt == ProbeInRange /\ ProbeElapsed > CooldownMs
            landed == playerHealth # probe.health
        IN  /\ landed => attempt /\ ProbeClear
            /\ landed => playerHealth = probe.health - EnemyShotDamage
            /\ landed => /\ Len(ProbeEmitted) >= 1
                         /\ ProbeEmitted[1] = Ev("health", playerHealth)
                         /\ CountKind(ProbeEmitted, "health") = 1
            /\ CountKind(ProbeEmitted, "death")
                   = (IF landed /\ playerHealth <= 0 THEN 1 ELSE 0)
            /\ ~landed => ProbeEmitted = <<>>

\* A landed shot took the player's last 10 points of health.
C18_LethalShotLanded ==
    /\ op = "check"
    /\ probe.health = EnemyShotDamage
    /\ playerHealth = 0
    /\ ProbeClear
    /\ ProbeEmitted = <<Ev("health", 0), Ev("death", 0)>>

\* C15: every reload that is started completes: whenever isReloading is
\* true, it is false again later, given that the 1500 ms timer fires,
\* whatever fire, reload, pointer-lock and teardown events come in between.
C15_ReloadCompletes == isReloading ~> ~isReloading

\* A reload has just completed with the pointer lock released (no frame
\* running) and no other timer pending.
C15_CompletedWhilePaused ==
    /\ op = "timeout"
    /\ ~isReloading
    /\ ~isLocked
    /\ timers = <<>>
    /\ playerAmmo = MagazineSize

\* C20 as stated: once dispose() has run, a key or mouse event changes
\* neither the magazine nor the reload flag, schedules nothing and invokes
\* no callback.
C20_DisposedIgnoresInput ==
    [][(disposed /\ op' \in {"KeyR", "KeyE", "mousedown", "shoot"}) =>
          /\ UNCHANGED <<playerAmmo, isReloading, timers>>
          /\ emitted' = <<>>]_vars

\* C14 as stated: the look pitch is within [-90, +90] degrees in every
\* reachable state, after any mouse movement and any fired shot with its
\* recoil.
C14_PitchWithinQuarterTurn == pitch \in -HalfPi..HalfPi

\* C12: after every updatePlayer the camera is inside the arena, x and z
\* within [-95, 95], and at height 10 or more.
C12_PlayerInsideArena ==
    /\ position.x \in -ArenaLimit..ArenaLimit
    /\ position.z \in -ArenaLimit..ArenaLimit
    /\ position.y >= GroundY

\* A tick carried the camera beyond x = 95 without touching a wall and left
\* it at 95.
C12_ClampedAtLimit ==
    /\ op = "tick"
    /\ ~step.hit
    /\ step.moved.x > ArenaLimit
    /\ position.x = ArenaLimit

\* Where a tick that hit no wall leaves the camera: the position after
\* lines 471-473, raised to height 10 if below, x and z cut to [-95, 95].
KeptWithin(v, moved) ==
    \/ moved \in -ArenaLimit..ArenaLimit /\ v = moved
    \/ moved > ArenaLimit /\ v = ArenaLimit
    \/ moved < -ArenaLimit /\ v = -ArenaLimit

RolledBack ==
    /\ position = step.prevPosition
    /\ velocity.x = 0
    /\ velocity.z = 0

\* C13 as stated: a tick whose integrated position puts the player's box on
\* an obstacle ends at the position it started from with no horizontal
\* velocity; any other tick ends at the integrated position.
C13_RollbackOrIntegrated ==
    op = "tick" =>
        IF HitsWall(step.moved) THEN RolledBack ELSE position = step.moved

\* C13 amended: a tick whose integrated position puts the player's box on
\* an obstacle ends at the position it started from with no horizontal
\* velocity; any other tick ends at the integrated position with its height
\* raised to 10 if it was lower and its x and z cut to [-95, 95].
C13_RollbackOrIntegratedClamped ==
    op = "tick" =>
        IF HitsWall(step.moved)
        THEN RolledBack
        ELSE /\ KeptWithin(position.x, step.moved.x)
             /\ KeptWithin(position.z, step.moved.z)
             /\ position.y = (IF step.moved.y < GroundY THEN GroundY
                              ELSE step.moved.y)

\* A tick moved the player's box onto an obstacle and was rolled back.
C13_WalkedIntoCover ==
    /\ op = "tick"
    /\ HitsWall(step.moved)
    /\ step.moved # step.prevPosition
    /\ position = step.prevPosition
    /\ velocity.x = 0

\* C19: Space adds 15 to the vertical velocity only when canJump is set and
\* always leaves canJump cleared; canJump becomes set only in a tick that
\* puts the camera on the ground; so outside a tick the vertical velocity
\* rises only by a jump from the ground, never by a second key press
\* in the air.
C19_JumpOnlyFromGround ==
    [][/\ op' = "Space" =>
             /\ velocity' = [velocity EXCEPT
                    !.y = @ + (IF canJump THEN JumpImpulse ELSE 0)]
             /\ ~canJump'
       /\ (canJump' /\ ~canJump) =>
             /\ op' = "tick"
             /\ position'.y = GroundY
             /\ velocity'.y = 0
             /\ step'.moved.y < GroundY
       /\ (velocity'.y > velocity.y /\ op' # "tick") =>
             op' = "Space" /\ canJump]_vars

\* Space was pressed again a tenth of a second into a jump and added
\* nothing.
C19_SecondPressInAir ==
    /\ op = "Space"
    /\ ~canJump
    /\ position.y = GroundY + ((JumpImpulse - Gravity * 100) \div 10)
    /\ velocity.y = JumpImpulse - Gravity * 100

====
